---- MODULE Spec2Model ----
(***************************************************************************)
(* PostHub: the pagination controller (posts.js loadPosts / loadMorePosts, *)
(* navigation.js showView) and the user cache (api.js fetchUser) as a      *)
(* state machine.  One action per event-loop task: everything a handler    *)
(* does up to its next network await, microtask continuations included.    *)
(*                                                                         *)
(* Environment.  The remote API is not part of the repository: it is a     *)
(* static collection of serverTotal posts answering limit/skip as the      *)
(* DummyJSON contract says ({ posts, total }); every request may also fail  *)
(* (network error, non-2xx status, body that is not JSON), and a posts      *)
(* request may be answered 200 with JSON that has no posts array.           *)
(* index.html is not part of the sources either: the pages start hidden     *)
(* (DEVELOPMENT docs), the initial classes of #load-more-btn and of         *)
(* #loading-spinner are left open, and the button can be clicked whenever   *)
(* it is neither hidden nor disabled.                                       *)
(*                                                                         *)
(* fetchUser is modelled where it can miss the cache: in displayPost.  Its  *)
(* other callers (openUserProfileModal, viewPostDetail, viewUserProfile)    *)
(* are reached only from a card that displayPost built after fetchUser      *)
(* returned that card's author, so they find the author cached.             *)
(*                                                                         *)
(* Specifications.  Spec and FairSpec: navigation, pagination and the user  *)
(* cache against a static collection.  ShrinkingSpec: the same with a       *)
(* collection that loses posts between two invocations.  DetailSpec:        *)
(* navigation and viewPostDetail on a posts page whose first page is loaded. *)
(* NavSpec: showView called with any name the URL hash can hold.            *)
(* ClickSpec: clicks on the nav links and the hashchange events they queue. *)
(* ContactSpec: the contact form's submit handler and its hide timer.       *)
(***************************************************************************)
EXTENDS Integers, Sequences, FiniteSets, TLC

(* ---------------- bounds ---------------- *)
\* largest size of the remote posts collection
MaxTotal == 3
\* number of distinct post authors
MaxUsers == 2
\* cap on the number of loadPosts invocations that pass the guard
MaxCalls == 2
\* batch size; config.js sets 10, scaled down to keep batches small
postsPerPage == 2
\* cap on the number of viewPostDetail invocations
MaxDetails == 2
\* cap on the number of contact-form submits
MaxSubmits == 3
\* cap on the number of hashchange events queued and not yet dispatched
MaxHashEvents == 2

(* ---------------- constants of the program ---------------- *)
\* value of a JSON field that is absent (JavaScript undefined)
Undefined == -1

UserIds == 1..MaxUsers
Pages == {"home", "posts", "post-detail", "profile", "contact"}
\* names showView is called with here: the default route and the posts page
ViewNames == {"home", "posts"}
\* data-view values of the .nav-link elements
NavLinks == {"home", "posts", "contact"}
\* names showView can get from a nav link, a back button or the URL hash: the
\* pages, the id of an element that is not a page, an id no element has
NavNames == Pages \cup {"load-more-btn", "nowhere"}

VARIABLES
    posts,            \* appData.posts: sequence of post ids
    users,            \* appData.users: cache, user id -> user record
    currentSkip,      \* appData.currentSkip
    totalPosts,       \* appData.totalPosts
    isLoading,        \* appData.isLoading
    visible,          \* pages without the 'hidden' class
    activeNav,        \* nav links with the 'active' class
    loadMoreHidden,   \* #load-more-btn has class 'hidden'
    loadMoreDisabled, \* #load-more-btn.disabled
    spinnerHidden,    \* #loading-spinner has class 'hidden'
    container,        \* children of #posts-container, in document order
    serverTotal,      \* size of the remote collection
    author,           \* userId of each remote post
    calls,            \* loadPosts invocations that passed the guard, oldest first
    postsRequests,    \* GET /posts requests sent so far
    userRequests,     \* per user id: GET /users/{id} requests sent so far
    cacheWrites,      \* per user id: assignments appData.users[id] = user so far
    guardHit,         \* the task that ran last was a loadPosts call stopped by the guard
    currentPost,      \* appData.currentPost
    details,          \* viewPostDetail invocations, oldest first
    successHidden,    \* #success-message has class 'hidden'
    successTimeoutId, \* the closure variable of setupContactForm (0: null)
    timers,           \* ids of the timeouts that are set and have not fired
    submits,          \* submit events handled so far; the n-th setTimeout returns n
    hash,             \* window.location.hash without its '#'
    hashEvents        \* hashchange events queued, oldest first: for each, the
                      \* loadPosts invocation its click started (0: none)

vars == <<posts, users, currentSkip, totalPosts, isLoading, visible, activeNav,
          loadMoreHidden, loadMoreDisabled, spinnerHidden, container,
          serverTotal, author, calls, postsRequests, userRequests, cacheWrites,
          guardHit, currentPost, details,
          successHidden, successTimeoutId, timers, submits,
          hash, hashEvents>>

appVars == <<posts, users, currentSkip, totalPosts>>

detailVars == <<currentPost, details>>

contactVars == <<successHidden, successTimeoutId, timers, submits>>

hashVars == <<hash, hashEvents>>

(* ---------------- helpers ---------------- *)
Min(a, b) == IF a <= b THEN a ELSE b
Max(a, b) == IF a >= b THEN a ELSE b

\* config.js line 14: currentPost: null
NoPost == [id |-> 0, userId |-> 0]

\* the User record GET /users/{id} answers with
UserRecord(u) == [id |-> u]

\* GET /posts?limit=&skip= on a collection of serverTotal posts
ServerPage(limit, skip) ==
    LET n == Max(0, Min(limit, serverTotal - skip))
    IN  [posts |-> [k \in 1..n |-> skip + k], total |-> serverTotal]

\* api.js fetchUser, line 11: the cache check
CacheHit(u) == u \in DOMAIN users

\* The code never compares user ids with anything but each other, so the authors
\* of the remote posts are numbered in order of first appearance.
FirstAppearanceOrder(f) ==
    \A k \in DOMAIN f : f[k] = 1 \/ \E j \in 1..(k - 1) : f[j] = f[k] - 1

(* ---------------- initial state ---------------- *)
InitApp ==
    /\ posts = << >>
    /\ users = << >>
    /\ currentSkip = 0
    /\ totalPosts = 0
    /\ isLoading = FALSE
    /\ visible = {}
    /\ activeNav = {}
    /\ loadMoreHidden \in BOOLEAN
    /\ loadMoreDisabled = FALSE
    /\ spinnerHidden \in BOOLEAN
    /\ container = << >>
    /\ serverTotal \in 0..MaxTotal
    /\ author \in {f \in [1..serverTotal -> UserIds] : FirstAppearanceOrder(f)}
    /\ calls = << >>
    /\ postsRequests = 0
    /\ userRequests = [u \in UserIds |-> 0]
    /\ cacheWrites = [u \in UserIds |-> 0]
    /\ guardHit = FALSE
    /\ currentPost = NoPost
    /\ details = << >>
    /\ successTimeoutId = 0
    /\ timers = {}
    /\ submits = 0
    /\ hash = ""
    /\ hashEvents = << >>

\* the state after construction; #success-message starts hidden
Init == InitApp /\ successHidden = TRUE

\* the same with the initial class of #success-message left open
InitContact == InitApp /\ successHidden \in BOOLEAN

(* ---------------- posts.js: loadPosts ---------------- *)
\* loadPosts without its guard
GuardMissing == FALSE

\* line 19: if (appData.isLoading) return;
GuardBlocks == isLoading

\* the offset computed from the number of invocations made so far
RequestSkipByPageNumber == Len(calls) * postsPerPage

\* line 29: the skip argument of fetchPosts
RequestSkip == currentSkip

\* a fresh invocation, suspended at line 29 on fetchPosts(postsPerPage, currentSkip)
NewCall(more) ==
    [pc |-> "fetch", limit |-> postsPerPage, skip |-> RequestSkip, more |-> more,
     batch |-> << >>, slots |-> << >>, result |-> "pending", resets |-> 0]

\* the guard placed inside the try block, so that finally runs on its return
ResetByGuardedCall == FALSE

\* line 19 is before the try of line 23: the return runs no finally
IsLoadingAfterGuard == isLoading

\* lines 17-29: the synchronous part of loadPosts, up to the first await
LoadPostsStart(more) ==
    IF GuardBlocks
    THEN /\ isLoading' = IsLoadingAfterGuard
         /\ UNCHANGED <<spinnerHidden, calls, postsRequests>>
    ELSE /\ Len(calls) < MaxCalls
         /\ isLoading' = TRUE
         /\ spinnerHidden' = FALSE
         /\ calls' = Append(calls, NewCall(more))
         /\ postsRequests' = postsRequests + 1

\* the reset placed at the end of the try block instead of in finally
ResetOnlyOnSuccess(result) == result # "failed"

\* lines 62-65: the finally block runs on every way out of the try
FinallyRuns(result) == TRUE

\* the empty state rendered for every empty batch
IsEmptyBatch(k, n) == k = 0

\* line 35: data.posts.length === 0 && appData.posts.length === 0
IsEmptyFirstBatch(k, n) == k = 0 /\ n = 0

\* the batch put in front of the posts already loaded
PushFront(ps, batch) == batch \o ps

\* line 43: appData.posts.push(...data.posts)
Push(ps, batch) == ps \o batch

\* the offset advanced by the page size instead of the batch length
SkipAdvanceByPage(k) == postsPerPage

\* line 46: appData.currentSkip += data.posts.length
SkipAdvance(k) == k

\* lines 278-288: updateLoadMoreButton
LoadMoreHiddenAfterUpdate(skip, total) == skip >= total

\* the catch block sends the request once more
RetryAfterFailure(result) == IF result = "failed" THEN 1 ELSE 0

\* lines 51-65: no statement on the way out of loadPosts calls fetchPosts
RequestsOnTheWayOut(result) == 0

\* loadPosts leaves the try block (normally, by return or through catch):
\* finally, then the continuation of loadMorePosts (lines 244-246) if it is the caller
\* loadPosts rethrowing the error of a failed posts request to its caller
RejectsOnFailure(result) == result = "failed"

\* lines 57-61: the catch handles the error, so the promise loadPosts returns
\* is never rejected and the caller's await (line 242) always continues
LoadPostsRejects(result) == FALSE

Settle(i, result, cs) ==
    /\ isLoading' = IF FinallyRuns(result) THEN FALSE ELSE isLoading
    /\ calls' = [cs EXCEPT ![i].pc = "done", ![i].result = result,
                           ![i].resets = @ + (IF FinallyRuns(result) THEN 1 ELSE 0)]
    /\ loadMoreDisabled' = IF cs[i].more /\ ~LoadPostsRejects(result)
                           THEN FALSE ELSE loadMoreDisabled
    /\ postsRequests' = postsRequests + RequestsOnTheWayOut(result)

\* lines 57-61: catch
Catch(i) ==
    /\ spinnerHidden' = TRUE
    /\ container' = Append(container, [kind |-> "error", post |-> 0])
    /\ Settle(i, "failed", calls)
    /\ UNCHANGED loadMoreHidden

\* lines 51-55 and out: all displayPost promises have settled
AfterDisplay(i, cs, skip, total) ==
    /\ spinnerHidden' = TRUE
    /\ loadMoreHidden' = LoadMoreHiddenAfterUpdate(skip, total)
    /\ Settle(i, "ok", cs)

(* ---------------- navigation.js: showView ---------------- *)
\* loadPosts called on every visit of the posts page
LoadsOnEveryVisit(name) == name = "posts"

\* line 74: viewName === 'posts' && appData.posts.length === 0 && !appData.isLoading
LazyLoads(name) == name = "posts" /\ Len(posts) = 0 /\ ~isLoading

\* the requested page shown without the others being hidden first
PagesShownWithoutHiding(name) == visible \cup ({name} \cap Pages)

\* lines 58-67: every .page gets 'hidden', the element with the id loses it
PagesShown(name) == IF name \in Pages THEN {name} ELSE {}

\* lines 57-77: what a call of showView does
ShowViewCall(name) ==
    /\ visible' = PagesShown(name)
    /\ activeNav' = {l \in NavLinks : l = name}
    /\ IF LazyLoads(name)
       THEN /\ LoadPostsStart(FALSE)
            /\ guardHit' = GuardBlocks
       ELSE /\ UNCHANGED <<isLoading, spinnerHidden, calls, postsRequests>>
            /\ guardHit' = FALSE
    /\ loadMoreHidden' = IF name = "load-more-btn" THEN FALSE ELSE loadMoreHidden
    /\ UNCHANGED <<appVars, loadMoreDisabled, container,
                   serverTotal, author, userRequests, cacheWrites>>
    /\ UNCHANGED <<detailVars, contactVars>>

\* a task that calls showView and leaves the URL alone
ShowView(name) ==
    /\ ShowViewCall(name)
    /\ UNCHANGED hashVars

\* lines 19-26 (and 30-39 for 'posts'): the click handler calls showView and
\* then assigns window.location.hash; an assignment that changes the hash
\* queues a hashchange event
NavClick(name) ==
    /\ ShowViewCall(name)
    /\ hash' = name
    /\ IF hash = name
       THEN UNCHANGED hashEvents
       ELSE /\ Len(hashEvents) < MaxHashEvents
            /\ hashEvents' = Append(hashEvents,
                    IF Len(calls') > Len(calls) THEN Len(calls') ELSE 0)

\* lines 42-48: handleRoute, run by the oldest queued hashchange event, reads
\* the hash the URL has now
HashChange ==
    /\ hashEvents # << >>
    /\ ShowViewCall(IF hash = "" THEN "home" ELSE hash)
    /\ hashEvents' = Tail(hashEvents)
    /\ UNCHANGED hash

\* The hashchange event is queued by the click handler that sent the request,
\* before the request has left the page: its task runs before the task that
\* delivers the response to that request.
NeverHeldBack(i) == FALSE
HeldBack(i) == \E e \in DOMAIN hashEvents : hashEvents[e] = i

(* ---------------- posts.js: loadMorePosts ---------------- *)
\* lines 235-247, run by a click on #load-more-btn (visible and enabled)
LoadMoreClick ==
    /\ ~loadMoreHidden
    /\ ~loadMoreDisabled
    /\ LoadPostsStart(TRUE)
    /\ loadMoreDisabled' = ~GuardBlocks
    /\ guardHit' = GuardBlocks
    /\ UNCHANGED <<appVars, visible, activeNav, loadMoreHidden, container,
                   serverTotal, author, userRequests, cacheWrites>>
    /\ UNCHANGED <<detailVars, contactVars, hashVars>>

(* ---------------- api.js: fetchPosts ---------------- *)
\* line 38: the fetch() of invocation i settles
PostsResponse(i, outcome) ==
    /\ i \in DOMAIN calls
    /\ calls[i].pc = "fetch"
    /\ ~HeldBack(i)
    /\ guardHit' = FALSE
    /\ IF outcome = "ok"
       THEN /\ calls' = [calls EXCEPT ![i].pc = "json"]
            /\ UNCHANGED <<isLoading, loadMoreDisabled, spinnerHidden, container,
                           loadMoreHidden, postsRequests>>
       ELSE Catch(i)
    /\ UNCHANGED <<appVars, visible, activeNav, serverTotal, author,
                   userRequests, cacheWrites>>
    /\ UNCHANGED <<detailVars, contactVars, hashVars>>

(* ---------------- api.js: fetchUser, posts.js: displayPost ---------------- *)
NoUser == [id |-> 0]

\* fetchUser lines 9-16, called by displayPost for post p (line 75):
\* a cached user is returned at once, otherwise GET /users/{id} is sent
FetchUserStart(p) ==
    IF CacheHit(author[p])
    THEN [post |-> p, user |-> author[p], st |-> "hit", ret |-> users[author[p]]]
    ELSE [post |-> p, user |-> author[p], st |-> "fetch", ret |-> NoUser]

\* the parsed user is returned without being stored
WritesCacheNever(u) == FALSE

\* the parsed user is stored only when no entry exists yet
WritesCacheIfAbsent(u) == u \notin DOMAIN users

\* line 25: appData.users[userId] = user, on every successful response
WritesCache(u) == TRUE

\* a failed lookup leaves a placeholder entry behind
CacheAfterFailureStores(u) == (u :> NoUser) @@ users

\* a failed lookup drops the entry of its id
CacheAfterFailureEvicts(u) == [x \in DOMAIN users \ {u} |-> users[x]]

\* the cache after fetchUser(u) failed (lines 28-31: log and rethrow)
CacheAfterFailure(u) == users

\* the cache after fetchUser(u) parsed the record rec (line 25)
CacheAfterSuccess(u, rec) ==
    IF WritesCache(u) THEN (u :> rec) @@ users ELSE users

\* a displayPost call is made only when the one before it has settled
StartsInTurn(n) == n = 1

\* line 49: data.posts.map(post => displayPost(post)) calls displayPost for
\* every post of the batch before Promise.all is awaited
StartsAtOnce(n) == TRUE

\* displayPost for the n-th post p of a batch, up to its await at line 75
DisplayPostStart(n, p) ==
    IF StartsAtOnce(n) THEN FetchUserStart(p)
    ELSE [post |-> p, user |-> author[p], st |-> "waiting", ret |-> NoUser]

\* displayPost lines 78-127 (the card) and 128-148 (the fallback card)
Card(p, ok) == [kind |-> IF ok THEN "card" ELSE "fallback", post |-> p]

SlotDone(sl) == sl.st \in {"hit", "ok", "failed"}

RECURSIVE HitCards(_)
\* the cards of the cache-hit slots, appended in slot order by the microtasks
\* that follow the map of line 49
HitCards(sls) ==
    IF sls = << >> THEN << >>
    ELSE (IF Head(sls).st = "hit" THEN <<Card(Head(sls).post, TRUE)>> ELSE << >>)
         \o HitCards(Tail(sls))

\* number of slots of sls that sent a request for user u
Misses(sls, u) == Cardinality({k \in DOMAIN sls : sls[k].user = u /\ sls[k].st = "fetch"})

(* ---------------- posts.js: loadPosts after the response ---------------- *)
\* line 44 of api.js and lines 29-66 of posts.js: response.json() of invocation i settles
PostsBody(i, outcome) ==
    /\ i \in DOMAIN calls
    /\ calls[i].pc = "json"
    /\ UNCHANGED <<visible, activeNav, serverTotal, author, cacheWrites, users>>
    /\ UNCHANGED <<detailVars, contactVars, hashVars>>
    /\ CASE outcome = "invalid" ->
            \* the body is not JSON: fetchPosts rejects
            /\ Catch(i)
            /\ guardHit' = FALSE
            /\ UNCHANGED <<posts, currentSkip, totalPosts, userRequests>>
         [] outcome = "malformed" ->
            \* JSON without a posts array: line 32 runs, line 35 throws
            /\ totalPosts' = Undefined
            /\ Catch(i)
            /\ guardHit' = FALSE
            /\ UNCHANGED <<posts, currentSkip, userRequests>>
         [] outcome = "parsed" ->
            LET data == ServerPage(calls[i].limit, calls[i].skip)
                k    == Len(data.posts)
            IN  /\ totalPosts' = data.total
                /\ IF IsEmptyFirstBatch(k, Len(posts))
                   THEN \* lines 35-40: empty state and return
                        /\ container' = Append(container, [kind |-> "empty", post |-> 0])
                        /\ spinnerHidden' = TRUE
                        /\ Settle(i, "empty", calls)
                        /\ guardHit' = FALSE
                        /\ UNCHANGED <<posts, currentSkip, userRequests, loadMoreHidden>>
                   ELSE LET sls == [n \in 1..k |-> DisplayPostStart(n, data.posts[n])]
                            cs  == [calls EXCEPT ![i].pc = "display",
                                                 ![i].batch = data.posts,
                                                 ![i].slots = sls]
                        IN  /\ posts' = Push(posts, data.posts)
                            /\ currentSkip' = currentSkip + SkipAdvance(k)
                            /\ userRequests' =
                                  [u \in UserIds |-> userRequests[u] + Misses(sls, u)]
                            /\ container' = container \o HitCards(sls)
                            /\ guardHit' = FALSE
                            /\ IF \A n \in 1..k : SlotDone(sls[n])
                               THEN AfterDisplay(i, cs, currentSkip + SkipAdvance(k),
                                                 data.total)
                               ELSE /\ calls' = cs
                                    /\ UNCHANGED <<isLoading, loadMoreDisabled,
                                                   spinnerHidden, loadMoreHidden,
                                                   postsRequests>>

\* displayPost passes the failure of fetchUser on to Promise.all
ResolvesOnlyWithUser(st) == st = "ok"

\* displayPost lines 128-148: the catch renders the fallback card and does not
\* rethrow, so the promise of displayPost is fulfilled either way
DisplayPostResolves(st) == TRUE

\* displayPost's await of fetchUser settles for slot s of invocation i:
\* the card or the fallback card is appended, and loadPosts resumes after
\* Promise.all once every slot of the batch has settled
SlotSettles(i, s, st, ret) ==
    LET sl == calls[i].slots[s]
        cs == [calls EXCEPT ![i].slots[s].st = st, ![i].slots[s].ret = ret]
    IN  IF DisplayPostResolves(st)
        THEN /\ container' = Append(container, Card(sl.post, st = "ok"))
             /\ IF \A n \in DOMAIN cs[i].slots : SlotDone(cs[i].slots[n])
                THEN AfterDisplay(i, cs, currentSkip, totalPosts)
                ELSE /\ calls' = cs
                     /\ UNCHANGED <<isLoading, loadMoreDisabled, spinnerHidden,
                                    loadMoreHidden, postsRequests>>
        ELSE Catch(i)

\* api.js line 16: the fetch() of the user request of slot s settles
UserResponse(i, s, outcome) ==
    /\ i \in DOMAIN calls
    /\ calls[i].pc = "display"
    /\ s \in DOMAIN calls[i].slots
    /\ calls[i].slots[s].st = "fetch"
    /\ guardHit' = FALSE
    /\ IF outcome = "ok"
       THEN /\ calls' = [calls EXCEPT ![i].slots[s].st = "json"]
            /\ UNCHANGED <<users, container, isLoading, loadMoreDisabled,
                           spinnerHidden, loadMoreHidden, postsRequests>>
       ELSE /\ users' = CacheAfterFailure(calls[i].slots[s].user)
            /\ SlotSettles(i, s, "failed", NoUser)
    /\ UNCHANGED <<posts, currentSkip, totalPosts, visible, activeNav, serverTotal,
                   author, userRequests, cacheWrites>>
    /\ UNCHANGED <<detailVars, contactVars, hashVars>>

\* api.js lines 22-27: response.json() of the user request of slot s settles
UserBody(i, s, outcome) ==
    /\ i \in DOMAIN calls
    /\ calls[i].pc = "display"
    /\ s \in DOMAIN calls[i].slots
    /\ calls[i].slots[s].st = "json"
    /\ guardHit' = FALSE
    /\ LET u == calls[i].slots[s].user
       IN  IF outcome = "parsed"
           THEN /\ users' = CacheAfterSuccess(u, UserRecord(u))
                /\ cacheWrites' = [cacheWrites EXCEPT
                                     ![u] = @ + (IF WritesCache(u) THEN 1 ELSE 0)]
                /\ SlotSettles(i, s, "ok", UserRecord(u))
           ELSE /\ users' = CacheAfterFailure(u)
                /\ UNCHANGED cacheWrites
                /\ SlotSettles(i, s, "failed", NoUser)
    /\ UNCHANGED <<posts, currentSkip, totalPosts, visible, activeNav, serverTotal,
                   author, userRequests>>
    /\ UNCHANGED <<detailVars, contactVars, hashVars>>

(* ---------------- specification ---------------- *)
Next ==
    \/ \E name \in ViewNames : ShowView(name)
    \/ LoadMoreClick
    \/ \E i \in 1..MaxCalls, outcome \in {"ok", "http", "network"} :
          PostsResponse(i, outcome)
    \/ \E i \in 1..MaxCalls, outcome \in {"parsed", "invalid", "malformed"} :
          PostsBody(i, outcome)
    \/ \E i \in 1..MaxCalls, s \in 1..postsPerPage, outcome \in {"ok", "http", "network"} :
          UserResponse(i, s, outcome)
    \/ \E i \in 1..MaxCalls, s \in 1..postsPerPage, outcome \in {"parsed", "invalid"} :
          UserBody(i, s, outcome)

Spec == Init /\ [][Next]_vars

\* a task that delivers the answer (or the failure) of an outstanding request
NetworkStep ==
    \E i \in 1..MaxCalls :
        \/ \E o \in {"ok", "http", "network"} : PostsResponse(i, o)
        \/ \E o \in {"parsed", "invalid", "malformed"} : PostsBody(i, o)
        \/ \E s \in 1..postsPerPage :
              \/ \E o \in {"ok", "http", "network"} : UserResponse(i, s, o)
              \/ \E o \in {"parsed", "invalid"} : UserBody(i, s, o)

\* the requests a loadPosts invocation starts settle: while a request is
\* outstanding, sooner or later one of the outstanding requests is answered
FairSpec == Spec /\ WF_vars(NetworkStep)

(* ---------------- a collection that loses posts ---------------- *)
\* The remote collection is not owned by the application: posts can be deleted
\* from its end between two loadPosts invocations.
\* (A collection that shrinks before its first page was loaded is a collection
\* that started smaller.)
CollectionShrinks ==
    /\ serverTotal > 0
    /\ posts # << >>
    /\ \A i \in DOMAIN calls : calls[i].pc = "done"
    /\ serverTotal' \in 0..(serverTotal - 1)
    /\ guardHit' = FALSE
    /\ UNCHANGED <<appVars, isLoading, visible, activeNav, loadMoreHidden,
                   loadMoreDisabled, spinnerHidden, container, author, calls,
                   postsRequests, userRequests, cacheWrites>>
    /\ UNCHANGED <<detailVars, contactVars, hashVars>>

NextShrinking == Next \/ CollectionShrinks

\* the sessions in which all posts are by one author
InitOneAuthor == Init /\ \A p \in DOMAIN author : author[p] = 1

ShrinkingSpec == InitOneAuthor /\ [][NextShrinking]_vars

(* ---------------- navigation by any name ---------------- *)
\* navigation.js lines 42-51: handleRoute passes whatever the URL hash holds
NextNav ==
    \/ \E name \in NavNames : ShowView(name)
    \/ LoadMoreClick
    \/ \E i \in 1..MaxCalls, outcome \in {"ok", "http", "network"} :
          PostsResponse(i, outcome)
    \/ \E i \in 1..MaxCalls, outcome \in {"parsed", "invalid", "malformed"} :
          PostsBody(i, outcome)
    \/ \E i \in 1..MaxCalls, s \in 1..postsPerPage, outcome \in {"ok", "http", "network"} :
          UserResponse(i, s, outcome)
    \/ \E i \in 1..MaxCalls, s \in 1..postsPerPage, outcome \in {"parsed", "invalid"} :
          UserBody(i, s, outcome)

NavSpec == InitOneAuthor /\ [][NextNav]_vars

(* ---------------- navigation by the nav links ---------------- *)
\* navigation.js lines 14-52: clicks on the nav links (the two back buttons
\* act as a click on 'posts') and the hashchange events they queue
NextClick ==
    \/ \E name \in NavLinks : NavClick(name)
    \/ HashChange
    \/ LoadMoreClick
    \/ \E i \in 1..MaxCalls, outcome \in {"ok", "http", "network"} :
          PostsResponse(i, outcome)
    \/ \E i \in 1..MaxCalls, outcome \in {"parsed", "invalid", "malformed"} :
          PostsBody(i, outcome)
    \/ \E i \in 1..MaxCalls, s \in 1..postsPerPage, outcome \in {"ok", "http", "network"} :
          UserResponse(i, s, outcome)
    \/ \E i \in 1..MaxCalls, s \in 1..postsPerPage, outcome \in {"parsed", "invalid"} :
          UserBody(i, s, outcome)

ClickSpec == InitOneAuthor /\ [][NextClick]_vars

(* ---------------- contact.js: setupContactForm ---------------- *)
\* the earlier timeout left running
TimersKept(id) == timers

\* lines 22-24: if (successTimeoutId) clearTimeout(successTimeoutId)
TimersAfterClear(id) == IF id # 0 THEN timers \ {id} ELSE timers

\* lines 13-38: the submit handler of #contact-form (the form is on the
\* contact page)
Submit ==
    /\ visible = {"contact"}
    /\ submits < MaxSubmits
    /\ submits' = submits + 1
    /\ successHidden' = FALSE
    /\ timers' = TimersAfterClear(successTimeoutId) \cup {submits + 1}
    /\ successTimeoutId' = submits + 1
    /\ guardHit' = FALSE
    /\ UNCHANGED <<appVars, isLoading, visible, activeNav, loadMoreHidden,
                   loadMoreDisabled, spinnerHidden, container, serverTotal, author,
                   calls, postsRequests, userRequests, cacheWrites, detailVars,
                   hashVars>>

\* lines 34-37: the callback of the timeout t runs after 5 seconds
TimerFires(t) ==
    /\ t \in timers
    /\ timers' = timers \ {t}
    /\ successHidden' = TRUE
    /\ successTimeoutId' = 0
    /\ guardHit' = FALSE
    /\ UNCHANGED <<appVars, isLoading, visible, activeNav, loadMoreHidden,
                   loadMoreDisabled, spinnerHidden, container, serverTotal, author,
                   calls, postsRequests, userRequests, cacheWrites, detailVars,
                   submits, hashVars>>

\* the pages reached without loading posts
QuietNames == {"home", "contact"}

NextContact ==
    \/ \E name \in QuietNames : ShowView(name)
    \/ Submit
    \/ \E t \in 1..MaxSubmits : TimerFires(t)

ContactSpec == InitContact /\ [][NextContact]_vars

(* ---------------- posts.js: viewPostDetail ---------------- *)
\* the Post record GET /posts/{id} answers with
PostRecord(p) == [id |-> p, userId |-> author[p]]

\* the posts whose card (with its click listeners, lines 85 and 94) is on the page
CardsShown == {container[n].post : n \in {m \in DOMAIN container : container[m].kind = "card"}}

\* line 171: appData.currentPost = post
StoresCurrentPost(post) == post

\* lines 154-168: a click on the title of the card of post p, up to the await
\* of fetchPostById
ViewPostDetail(p) ==
    /\ visible = {"posts"}
    /\ p \in CardsShown
    /\ Len(details) < MaxDetails
    /\ visible' = {"post-detail"}
    /\ activeNav' = {}
    /\ details' = Append(details, [post |-> p, pc |-> "fetch", result |-> "pending"])
    /\ UNCHANGED <<contactVars, hashVars>>
    /\ guardHit' = FALSE
    /\ UNCHANGED <<appVars, isLoading, loadMoreHidden, loadMoreDisabled, spinnerHidden,
                   container, serverTotal, author, calls, postsRequests, userRequests,
                   cacheWrites, currentPost>>

\* api.js line 51: the fetch() of GET /posts/{id} of invocation j settles
DetailResponse(j, outcome) ==
    /\ j \in DOMAIN details
    /\ details[j].pc = "fetch"
    /\ details' = IF outcome = "ok"
                  THEN [details EXCEPT ![j].pc = "json"]
                  ELSE [details EXCEPT ![j].pc = "done", ![j].result = "failed"]
    /\ UNCHANGED <<contactVars, hashVars>>
    /\ guardHit' = FALSE
    /\ UNCHANGED <<appVars, isLoading, visible, activeNav, loadMoreHidden,
                   loadMoreDisabled, spinnerHidden, container, serverTotal, author,
                   calls, postsRequests, userRequests, cacheWrites, currentPost>>

\* api.js line 57 and posts.js lines 168-222: the body of GET /posts/{id} is
\* parsed, currentPost is stored, the author comes from the cache (the card
\* was built from it), the article is rendered and loadComments sends its
\* request
DetailBody(j, outcome) ==
    /\ j \in DOMAIN details
    /\ details[j].pc = "json"
    /\ IF outcome = "parsed"
       THEN /\ CacheHit(author[details[j].post])
            /\ currentPost' = StoresCurrentPost(PostRecord(details[j].post))
            /\ details' = [details EXCEPT ![j].pc = "comments"]
       ELSE /\ details' = [details EXCEPT ![j].pc = "done", ![j].result = "failed"]
            /\ UNCHANGED currentPost
    /\ UNCHANGED <<contactVars, hashVars>>
    /\ guardHit' = FALSE
    /\ UNCHANGED <<appVars, isLoading, visible, activeNav, loadMoreHidden,
                   loadMoreDisabled, spinnerHidden, container, serverTotal, author,
                   calls, postsRequests, userRequests, cacheWrites>>

\* comments.js lines 19-59: the comments request of invocation j settles, with
\* the comments or with a failure that loadComments catches; either way
\* viewPostDetail returns normally
CommentsSettle(j, outcome) ==
    /\ j \in DOMAIN details
    /\ details[j].pc = "comments"
    /\ details' = [details EXCEPT ![j].pc = "done", ![j].result = "ok"]
    /\ UNCHANGED <<contactVars, hashVars>>
    /\ guardHit' = FALSE
    /\ UNCHANGED <<appVars, isLoading, visible, activeNav, loadMoreHidden,
                   loadMoreDisabled, spinnerHidden, container, serverTotal, author,
                   calls, postsRequests, userRequests, cacheWrites, currentPost>>

\* the first page of the collection
FirstPage == ServerPage(postsPerPage, 0).posts

\* the state the posts page is in once the first page of a non-empty collection
\* has been loaded with every request answered, the author responses in order
InitLoaded ==
    /\ serverTotal \in 1..MaxTotal
    /\ author \in {f \in [1..serverTotal -> UserIds] : FirstAppearanceOrder(f)}
    /\ posts = FirstPage
    /\ users = [u \in {author[q] : q \in 1..Len(FirstPage)} |-> UserRecord(u)]
    /\ currentSkip = Len(FirstPage)
    /\ totalPosts = serverTotal
    /\ isLoading = FALSE
    /\ visible = {"posts"}
    /\ activeNav = {"posts"}
    /\ loadMoreHidden = LoadMoreHiddenAfterUpdate(Len(FirstPage), serverTotal)
    /\ loadMoreDisabled = FALSE
    /\ spinnerHidden = TRUE
    /\ container = [n \in 1..Len(FirstPage) |-> Card(FirstPage[n], TRUE)]
    /\ calls = << [pc |-> "done", limit |-> postsPerPage, skip |-> 0, more |-> FALSE,
                   batch |-> FirstPage,
                   slots |-> [n \in 1..Len(FirstPage) |->
                                [post |-> FirstPage[n], user |-> author[FirstPage[n]],
                                 st |-> "ok", ret |-> UserRecord(author[FirstPage[n]])]],
                   result |-> "ok", resets |-> 1] >>
    /\ postsRequests = 1
    /\ userRequests = [u \in UserIds |->
                          Cardinality({q \in 1..Len(FirstPage) : author[q] = u})]
    /\ cacheWrites = [u \in UserIds |->
                         Cardinality({q \in 1..Len(FirstPage) : author[q] = u})]
    /\ guardHit = FALSE
    /\ currentPost = NoPost
    /\ details = << >>
    /\ successHidden = TRUE
    /\ successTimeoutId = 0
    /\ timers = {}
    /\ submits = 0
    /\ hash = ""
    /\ hashEvents = << >>

\* the detail view on top of a loaded posts page: navigation and post details
NextDetail ==
    \/ \E name \in ViewNames : ShowView(name)
    \/ \E p \in 1..MaxTotal : ViewPostDetail(p)
    \/ \E j \in 1..MaxDetails, outcome \in {"ok", "http", "network"} :
          DetailResponse(j, outcome)
    \/ \E j \in 1..MaxDetails, outcome \in {"parsed", "invalid"} :
          DetailBody(j, outcome)
    \/ \E j \in 1..MaxDetails, outcome \in {"ok", "failed"} :
          CommentsSettle(j, outcome)

DetailSpec == InitLoaded /\ [][NextDetail]_vars

(* ---------------- derived state ---------------- *)
\* invocations of loadPosts that passed the guard and have not settled
PendingCalls == {i \in DOMAIN calls : calls[i].pc # "done"}

\* invocations whose posts request has been sent and not yet answered in full
PostsInFlight == {i \in DOMAIN calls : calls[i].pc \in {"fetch", "json"}}

\* invocations whose posts response was a well-formed batch
SucceededCalls == {i \in DOMAIN calls : calls[i].pc = "display" \/ calls[i].result \in {"ok", "empty"}}

FailedCalls == {i \in DOMAIN calls : calls[i].result = "failed"}

RECURSIVE SumBatches(_)
\* k_1 + ... + k_n over the first n invocations
SumBatches(n) == IF n = 0 THEN 0 ELSE SumBatches(n - 1) + Len(calls[n].batch)

(* ---------------- C1 ---------------- *)
\* C1: a loadPosts invocation made while an earlier one is pending is a no-op
\* (no request is sent, posts and currentSkip are untouched), and at most one
\* posts request is in flight in every reachable state.
C1_DuplicateCallGuard ==
    /\ [](Cardinality(PostsInFlight) <= 1 /\ Cardinality(PendingCalls) <= 1)
    /\ [][guardHit' => UNCHANGED <<calls, posts, currentSkip>>]_vars

\* a Load More click was just rejected by the guard while a posts request is in flight
C1_Witness ==
    /\ guardHit
    /\ Cardinality(PostsInFlight) = 1
    /\ isLoading

(* ---------------- C2 ---------------- *)
\* C2: every invocation that passed the guard resets isLoading exactly once, when
\* it settles, whatever the outcome of its request; isLoading is true only while
\* an invocation is pending, and once the requests settle it becomes false again.
C2_GuardReleased ==
    /\ [](\A i \in DOMAIN calls : calls[i].resets = IF calls[i].pc = "done" THEN 1 ELSE 0)
    /\ [](isLoading => PendingCalls # {})
    /\ (isLoading ~> ~isLoading)

\* after a failed invocation the guard is free and a later invocation sent a request
C2_Witness ==
    \E i, j \in DOMAIN calls :
        /\ i < j
        /\ calls[i].result = "failed"
        /\ calls[i].resets = 1
        /\ calls[j].pc = "fetch"

(* ---------------- C3 ---------------- *)
\* C3: when a loadPosts invocation fails, posts, currentSkip and totalPosts have
\* the values they had before the invocation: the task in which the invocation
\* fails (the only one of a failing invocation that could touch them) leaves
\* all three unchanged.
C3_FailureLeavesStateUntouched ==
    [][\A i \in DOMAIN calls :
          (calls[i].pc # "done" /\ calls'[i].result = "failed") =>
              UNCHANGED <<posts, currentSkip, totalPosts>>]_vars

(* ---------------- C4 ---------------- *)
\* C4: as long as no invocation failed, currentSkip and the length of posts both
\* equal the sum of the numbers of posts the responses contained.
C4_MonotonicOffset ==
    (FailedCalls = {}) =>
        /\ currentSkip = SumBatches(Len(calls))
        /\ Len(posts) = SumBatches(Len(calls))

\* two successful invocations, the second one a short page
C4_Witness ==
    /\ Len(calls) = 2
    /\ calls[1].result = "ok" /\ calls[2].result = "ok"
    /\ Len(calls[1].batch) = postsPerPage
    /\ Len(calls[2].batch) \in 1..(postsPerPage - 1)
    /\ currentSkip = Len(calls[1].batch) + Len(calls[2].batch)

(* ---------------- fetchUser calls ---------------- *)
\* the fetchUser calls made so far: slot s of invocation i
AllSlots == {x \in (DOMAIN calls) \X (1..postsPerPage) : x[2] \in DOMAIN calls[x[1]].slots}

Slot(x) == calls[x[1]].slots[x[2]]

\* the calls for user u, and those among them that are in one of the states sts
SlotsOf(u) == {x \in AllSlots : Slot(x).user = u}
SlotsIn(u, sts) == {x \in SlotsOf(u) : Slot(x).st \in sts}

(* ---------------- C5 ---------------- *)
\* C5: of two fetchUser calls for one id made in sequence, the second one, made
\* once the first has returned the user, is answered from the cache: it sends
\* no request and returns the same record.
C5_CacheIdempotence ==
    \A x, y \in AllSlots :
        (x[1] < y[1] /\ Slot(x).user = Slot(y).user /\ Slot(x).st \in {"hit", "ok"}) =>
            /\ Slot(y).st = "hit"
            /\ Slot(y).ret = Slot(x).ret

\* a user fetched over the network in one batch and served from the cache in a
\* later batch, with one request in all
C5_Witness ==
    \E x, y \in AllSlots :
        /\ x[1] < y[1]
        /\ Slot(x).user = Slot(y).user
        /\ Slot(x).st = "ok" /\ Slot(y).st = "hit"
        /\ Slot(y).ret = UserRecord(Slot(x).user)
        /\ userRequests[Slot(x).user] = 1

(* ---------------- C6 ---------------- *)
\* C6: a failed fetchUser(id) rethrows to its caller (displayPost appends the
\* fallback card) and stores nothing in the cache, so a later fetchUser(id) that
\* follows only failed lookups of id is not answered from the cache but sends a
\* request again.
C6_NoCachedFailure ==
    /\ [](\A y \in AllSlots :
             ( /\ \E x \in SlotsOf(Slot(y).user) : x[1] < y[1]
               /\ \A x \in SlotsOf(Slot(y).user) : x[1] < y[1] => Slot(x).st = "failed" )
             => Slot(y).st # "hit")
    /\ [][(\E x \in AllSlots : Slot(x).st # "failed" /\ calls'[x[1]].slots[x[2]].st = "failed")
          => /\ users' = users
             /\ container' = Append(container, container'[Len(container')])
             /\ container'[Len(container')].kind = "fallback"]_vars

\* a lookup failed, the cache stayed empty for the id, and a later lookup of the
\* same id went to the network again and succeeded
C6_Witness ==
    \E x, y \in AllSlots :
        /\ x[1] < y[1]
        /\ Slot(x).user = Slot(y).user
        /\ Slot(x).st = "failed" /\ Slot(y).st = "ok"
        /\ userRequests[Slot(x).user] >= 2
        /\ cacheWrites[Slot(x).user] = 1

(* ---------------- C7 ---------------- *)
\* C7 as stated: the cache entry of each id is written exactly once, by the first
\* successful resolution, and never again.
C7_WriteOncePerKey ==
    \A u \in UserIds : cacheWrites[u] = IF u \in DOMAIN users THEN 1 ELSE 0

\* C7 as amended: an entry, once written, is never removed or changed to another
\* value, and it is written again only by lookups that were already pending when
\* it was first written: every write of an id comes from one and the same batch
\* of concurrent lookups, and lookups started afterwards never write.
C7_WrittenOnlyByPendingMisses ==
    /\ [][\A u \in DOMAIN users : u \in DOMAIN users' /\ users'[u] = users[u]]_vars
    /\ [](\A u \in UserIds :
             /\ (cacheWrites[u] >= 1) <=> (u \in DOMAIN users)
             /\ \A x, y \in SlotsIn(u, {"ok"}) : x[1] = y[1])

\* an entry written twice by two concurrent lookups, one lookup of the same id
\* having failed in the meantime or afterwards, and still in the cache
C7_Witness ==
    \E u \in UserIds :
        /\ cacheWrites[u] = 2
        /\ u \in DOMAIN users
        /\ \E y \in SlotsOf(u) : \E x \in SlotsIn(u, {"ok"}) :
              x[1] < y[1] /\ Slot(y).st = "hit"

(* ---------------- C8 ---------------- *)
\* C8: lookups of one uncached id that are pending together are not coalesced:
\* every lookup that missed the cache sent its own request, every successful one
\* wrote the cache entry, and the entry holds the record last written.
C8_NoCoalescing ==
    \A u \in UserIds :
        /\ userRequests[u] = Cardinality(SlotsIn(u, {"fetch", "json", "ok", "failed"}))
        /\ cacheWrites[u] = Cardinality(SlotsIn(u, {"ok"}))
        /\ \A x \in SlotsIn(u, {"ok"}) : u \in DOMAIN users /\ users[u] = Slot(x).ret

\* two posts by one author in one batch: two requests, two cache writes
C8_Witness ==
    \E x, y \in AllSlots :
        /\ x[1] = y[1] /\ x[2] # y[2]
        /\ Slot(x).user = Slot(y).user
        /\ Slot(x).st = "ok" /\ Slot(y).st = "ok"
        /\ userRequests[Slot(x).user] = 2
        /\ cacheWrites[Slot(x).user] = 2

(* ---------------- C9 ---------------- *)
\* C9: once a successful response has made totalPosts known and
\* currentSkip >= totalPosts, no task sends a further posts request.
C9_NoRequestPastTheEnd ==
    [][(SucceededCalls # {} /\ totalPosts # Undefined /\ currentSkip >= totalPosts)
       => Len(calls') = Len(calls)]_vars

(* ---------------- C10 ---------------- *)
\* C10: in every state after the first successful posts response,
\* currentSkip <= totalPosts.
C10_SkipWithinTotal ==
    (SucceededCalls # {}) => (totalPosts # Undefined /\ currentSkip <= totalPosts)

(* ---------------- C11 ---------------- *)
\* C11: the task in which a loadPosts invocation whose request succeeded
\* settles leaves the Load More button hidden exactly when
\* currentSkip >= totalPosts, evaluated on the new values.
C11_ButtonRecomputed ==
    [][\A i \in DOMAIN calls :
          (calls[i].pc # "done" /\ calls'[i].result \in {"ok", "empty"}) =>
              (loadMoreHidden' <=> currentSkip' >= totalPosts')]_vars

(* ---------------- C12 ---------------- *)
\* position of invocation i among the invocations that received a batch
Rank(i) == Cardinality({j \in SucceededCalls : j <= i})

\* ceil(T / P) for T >= 0
CeilDiv(t, p) == (t + p - 1) \div p

\* C12: against a collection of T >= 1 posts served in pages of P, the n-th
\* invocation that receives a batch receives the posts (n-1)P+1 .. min(nP, T),
\* that is min(P, T - currentSkip) posts; there are at most ceil(T/P) such
\* invocations, and once there are ceil(T/P) of them currentSkip = T = totalPosts.
C12_EndToEnd ==
    (serverTotal >= 1) =>
        /\ \A i \in SucceededCalls :
              LET from == (Rank(i) - 1) * postsPerPage
              IN  /\ from < serverTotal
                  /\ calls[i].batch =
                        [k \in 1..Min(postsPerPage, serverTotal - from) |-> from + k]
        /\ Cardinality(SucceededCalls) <= CeilDiv(serverTotal, postsPerPage)
        /\ (Cardinality(SucceededCalls) = CeilDiv(serverTotal, postsPerPage)) =>
              (currentSkip = serverTotal /\ totalPosts = serverTotal)

\* a collection one post longer than a page: a full page, then a page of one
\* post, and the offset has reached the total
C12_Witness ==
    /\ serverTotal = postsPerPage + 1
    /\ Cardinality(SucceededCalls) = 2
    /\ \E i, j \in SucceededCalls :
          /\ i < j
          /\ Len(calls[i].batch) = postsPerPage
          /\ Len(calls[j].batch) = 1
    /\ currentSkip = serverTotal
    /\ totalPosts = serverTotal

(* ---------------- C13 ---------------- *)
\* C13 as stated: isLoading is true exactly while a posts request sent by
\* loadPosts has not been answered.
C13_LoadingIffRequestInFlight ==
    isLoading <=> (PostsInFlight # {})

\* C13 as amended: isLoading is true exactly while an invocation of loadPosts
\* that passed the guard has not settled, that is while its posts request is in
\* flight and, after the batch has arrived, while author lookups of the batch
\* are outstanding.
C13_LoadingIffInvocationPending ==
    /\ isLoading <=> (PendingCalls # {})
    /\ (PostsInFlight # {}) => isLoading
    /\ \A i \in PendingCalls \ PostsInFlight :
          \E s \in DOMAIN calls[i].slots : ~SlotDone(calls[i].slots[s])

\* the batch has arrived and been appended, an author lookup is outstanding,
\* and isLoading is still true
C13_Witness ==
    /\ isLoading
    /\ PostsInFlight = {}
    /\ \E i \in DOMAIN calls :
          /\ calls[i].pc = "display"
          /\ Len(posts) >= Len(calls[i].batch)
          /\ \E s \in DOMAIN calls[i].slots : calls[i].slots[s].st = "fetch"

(* ---------------- C14 ---------------- *)
\* C14 as stated: no two posts requests carry the same skip value.
C14_NoOffsetRequestedTwice ==
    \A i, j \in DOMAIN calls : i # j => calls[i].skip # calls[j].skip

\* C14 as amended: a skip value whose request was answered with posts is never
\* requested again (a request is repeated with the same skip only when the
\* earlier one brought no posts), and no post occurs twice in posts.
C14_NoServedOffsetRequestedTwice ==
    /\ \A i, j \in DOMAIN calls :
          (i < j /\ calls[i].batch # << >>) => calls[j].skip # calls[i].skip
    /\ \A a, b \in DOMAIN posts : a # b => posts[a] # posts[b]

\* a request failed, the next invocation repeated its skip value and was
\* answered with posts, which are in posts once
C14_Witness ==
    \E i, j \in DOMAIN calls :
        /\ i < j
        /\ calls[i].result = "failed"
        /\ calls[j].skip = calls[i].skip
        /\ calls[j].batch # << >>
        /\ posts = calls[j].batch

(* ---------------- C15 ---------------- *)
RECURSIVE ConcatBatches(_)
\* the batches of the first n invocations, one after the other
ConcatBatches(n) ==
    IF n = 0 THEN << >> ELSE ConcatBatches(n - 1) \o calls[n].batch

\* C15: posts is the concatenation of the post lists of the successful
\* responses, in the order in which the responses arrived and each list in the
\* order received; every task leaves the posts already there in place and only
\* adds at the end.
C15_AppendOnly ==
    /\ [](posts = ConcatBatches(Len(calls)))
    /\ [][/\ Len(posts') >= Len(posts)
          /\ SubSeq(posts', 1, Len(posts)) = posts]_vars

\* two batches in posts, the earlier one first
C15_Witness ==
    \E i, j \in DOMAIN calls :
        /\ i < j
        /\ calls[i].batch # << >> /\ calls[j].batch # << >>
        /\ posts = calls[i].batch \o calls[j].batch
        /\ posts[1] = 1 /\ posts[Len(posts)] = Len(posts)

(* ---------------- C16 ---------------- *)
\* C16: in the task that receives a successful posts response with zero posts,
\* the empty-state element is appended if and only if posts was empty before;
\* when posts was not empty nothing is rendered, and posts and currentSkip
\* are left as they were.
C16_EmptyStateOnlyForFirstBatch ==
    [][\A i \in DOMAIN calls :
          ( /\ calls[i].pc = "json"
            /\ calls'[i].result \in {"ok", "empty"}
            /\ calls'[i].batch = << >> ) =>
              /\ (container' = Append(container, [kind |-> "empty", post |-> 0]))
                    <=> (posts = << >>)
              /\ (posts # << >>) => (container' = container)
              /\ posts' = posts
              /\ currentSkip' = currentSkip]_vars

\* an invocation got an empty later page (the collection lost its last posts
\* after the first page was loaded) and settled with the posts still loaded,
\* the offset unmoved and no empty state in the container
C16_Witness ==
    \E i \in DOMAIN calls :
        /\ calls[i].result = "ok"
        /\ calls[i].batch = << >>
        /\ posts # << >>
        /\ currentSkip = Len(posts)
        /\ \A n \in DOMAIN container : container[n].kind # "empty"

(* ---------------- C17 ---------------- *)
\* a posts request or a user request fails in this step
RequestFails ==
    \/ \E i \in DOMAIN calls : calls[i].pc # "done" /\ calls'[i].result = "failed"
    \/ \E x \in AllSlots : Slot(x).st # "failed" /\ calls'[x[1]].slots[x[2]].st = "failed"

\* C17: every posts request belongs to exactly one loadPosts invocation that
\* passed the guard and every user request to exactly one fetchUser call that
\* missed the cache; the task in which a request fails sends no request, and a
\* failed invocation or lookup stays failed: nothing re-sends its request.
C17_NoAutomaticRetry ==
    /\ [](postsRequests = Len(calls))
    /\ [](\A u \in UserIds :
             userRequests[u] = Cardinality({x \in SlotsOf(u) : Slot(x).st # "hit"}))
    /\ [][RequestFails =>
            /\ postsRequests' = postsRequests
            /\ userRequests' = userRequests]_vars
    /\ [][/\ \A i \in DOMAIN calls :
               calls[i].result = "failed" => calls'[i] = calls[i]
          /\ \A x \in AllSlots :
               Slot(x).st = "failed" => calls'[x[1]].slots[x[2]] = Slot(x)]_vars

\* a posts request failed and, in a later invocation, a user request failed and
\* the invocation has settled: two posts requests and one user request in all
C17_Witness ==
    /\ Len(calls) = 2
    /\ calls[1].result = "failed"
    /\ calls[2].result = "ok"
    /\ Len(calls[2].slots) = 1
    /\ calls[2].slots[1].st = "failed"
    /\ postsRequests = 2
    /\ userRequests[calls[2].slots[1].user] = 1

(* ---------------- C18 ---------------- *)
\* the posts request of some invocation is unanswered before and after this step
StaysUnanswered ==
    \E i \in DOMAIN calls : calls[i].pc = "fetch" /\ calls'[i].pc = "fetch"

\* C18: as long as the posts request of an invocation is unanswered, isLoading
\* is true, and whatever happens meanwhile (navigation to the posts view, a
\* click on Load More) sends no request and leaves the application state, the
\* invocations and the rendered posts as they are.
C18_UnansweredRequestBlocks ==
    /\ []((\E i \in DOMAIN calls : calls[i].pc = "fetch") => isLoading)
    /\ [][StaysUnanswered =>
            UNCHANGED <<appVars, isLoading, calls, postsRequests, userRequests,
                        container>>]_vars

\* on the posts page, with the first request still unanswered, a click on
\* Load More has just been turned away
C18_Witness ==
    /\ guardHit
    /\ visible = {"posts"}
    /\ Len(calls) = 1
    /\ calls[1].pc = "fetch"
    /\ ~calls[1].more
    /\ postsRequests = 1
    /\ isLoading
    /\ ~loadMoreDisabled

(* ---------------- C19 ---------------- *)
\* C19: in the task that receives a batch of posts, fetchUser is called for
\* every post of the batch, in order: each call either finds its author in the
\* cache as it was before the task or has sent its request, and no request of
\* the batch has been answered yet.
C19_LookupsIssuedTogether ==
    [][\A i \in DOMAIN calls :
          (calls[i].pc = "json" /\ calls'[i].batch # << >>) =>
              LET b   == calls'[i].batch
                  sls == calls'[i].slots
              IN  /\ Len(sls) = Len(b)
                  /\ \A n \in DOMAIN sls :
                        /\ sls[n].post = b[n]
                        /\ sls[n].user = author[b[n]]
                        /\ sls[n].st = IF author[b[n]] \in DOMAIN users
                                       THEN "hit" ELSE "fetch"
                  /\ \A u \in UserIds :
                        userRequests'[u] = userRequests[u] +
                            (IF u \in DOMAIN users THEN 0
                             ELSE Cardinality({n \in DOMAIN b : author[b[n]] = u}))]_vars

\* the requests for two different authors of one batch are outstanding together
C19_Witness ==
    \E i \in DOMAIN calls :
        /\ calls[i].pc = "display"
        /\ Len(calls[i].slots) >= 2
        /\ calls[i].slots[1].st = "fetch"
        /\ calls[i].slots[2].st = "fetch"
        /\ calls[i].slots[1].user # calls[i].slots[2].user
        /\ userRequests[calls[i].slots[1].user] = 1
        /\ userRequests[calls[i].slots[2].user] = 1

(* ---------------- C20 ---------------- *)
\* C20: when two viewPostDetail invocations, for post A and then for post B,
\* have both settled successfully, currentPost is B.
C20_CurrentPostIsLastNavigation ==
    \A j \in DOMAIN details :
        ( /\ j > 1
          /\ j = Len(details)
          /\ details[j - 1].result = "ok"
          /\ details[j].result = "ok" )
        => currentPost = PostRecord(details[j].post)

(* ---------------- C21 ---------------- *)
\* the elements of the posts container of one kind
Elements(kind) == {n \in DOMAIN container : container[n].kind = kind}

\* C21: the task in which an author lookup fails appends the fallback card of
\* its post and leaves posts and currentSkip alone; an invocation with a failed
\* lookup does not fail, its whole batch stays in posts and in currentSkip, and
\* error-state elements come from failed posts requests only.
C21_FallbackKeepsBatch ==
    /\ [][\A x \in AllSlots :
            (Slot(x).st # "failed" /\ calls'[x[1]].slots[x[2]].st = "failed") =>
                /\ container' = Append(container, Card(Slot(x).post, FALSE))
                /\ UNCHANGED <<posts, currentSkip>>]_vars
    /\ [](\A i \in DOMAIN calls :
             (\E s \in DOMAIN calls[i].slots : calls[i].slots[s].st = "failed") =>
                 /\ calls[i].result # "failed"
                 /\ SubSeq(posts, calls[i].skip + 1, calls[i].skip + Len(calls[i].batch))
                       = calls[i].batch
                 /\ currentSkip >= calls[i].skip + Len(calls[i].batch))
    /\ [](Cardinality(Elements("error")) = Cardinality(FailedCalls))
    /\ [](\A i \in DOMAIN calls :
             (calls[i].pc = "done" /\ calls[i].batch # << >>) => calls[i].result = "ok")

\* a batch of two posts has settled successfully with one author lookup failed
\* and the other answered: a fallback card and a card, no error state
C21_Witness ==
    \E i \in DOMAIN calls :
        /\ calls[i].result = "ok"
        /\ Len(calls[i].slots) = 2
        /\ \E s, t \in DOMAIN calls[i].slots :
              calls[i].slots[s].st = "failed" /\ calls[i].slots[t].st = "ok"
        /\ Elements("error") = {}
        /\ Cardinality(Elements("fallback")) = 1
        /\ currentSkip = Len(posts)
        /\ posts = calls[i].batch

(* ---------------- C22 ---------------- *)
\* the invocations of loadPosts made by showView
StartedByShowView == {i \in DOMAIN calls : ~calls[i].more}

\* C22 as stated: showView('posts') sends a posts request on the first visit
\* only, so at most one invocation was ever started by showView.
C22_LoadsOnFirstVisitOnly ==
    Cardinality(StartedByShowView) <= 1

\* C22 as amended: showView starts a load only for the posts page, while posts
\* is empty and no load is pending; so once a load has put posts into posts no
\* later showView('posts') sends a request, and a load started by showView
\* follows only loads that brought no posts.
C22_LoadsOnlyWhileEmpty ==
    /\ [][\A i \in DOMAIN calls' \ DOMAIN calls :
            ~calls'[i].more =>
                (posts = << >> /\ ~isLoading /\ visible' = {"posts"})]_vars
    /\ [](\A i, j \in DOMAIN calls :
             (i < j /\ j \in StartedByShowView) => calls[i].batch = << >>)
    /\ []((posts # << >>) =>
             \A i \in StartedByShowView : calls[i].pc # "fetch")

\* the load of the first visit failed, the load of a later visit brought the
\* posts: two loads started by showView, one error state, posts loaded
C22_Witness ==
    /\ Len(calls) = 2
    /\ StartedByShowView = {1, 2}
    /\ calls[1].result = "failed"
    /\ calls[2].result = "ok"
    /\ posts # << >>
    /\ visible = {"posts"}
    /\ Cardinality(Elements("error")) = 1

(* ---------------- C23 ---------------- *)
\* C23: a showView(name) call leaves visible exactly the page whose id is name,
\* and no page when name is not the id of a page; at most one page is visible
\* in every reachable state.
C23_OnePageVisible ==
    /\ [](Cardinality(visible) <= 1 /\ visible \subseteq Pages)
    /\ [][\A name \in NavNames :
            ShowView(name) =>
                /\ \A pg \in Pages : (pg \in visible') <=> (pg = name)
                /\ (name \notin Pages) => (visible' = {})]_vars

\* the posts page was visited (a load was started) and a later showView with a
\* name that is not a page has hidden every page
C23_Witness ==
    /\ visible = {}
    /\ activeNav = {}
    /\ 1 \in StartedByShowView

(* ---------------- C24 ---------------- *)
\* C24: at most one hide-timer is pending, and it is the one started by the
\* most recent submit; the message shown by a submit is hidden only by the
\* timer of the most recent submit, and stays visible while that timer is
\* pending.
C24_OneHideTimer ==
    /\ [](Cardinality(timers) <= 1)
    /\ [](timers \subseteq {submits} /\ (timers # {} => successTimeoutId = submits))
    /\ [](timers # {} => ~successHidden)
    /\ [][(submits > 0 /\ ~successHidden /\ successHidden') =>
            (timers = {submits} /\ timers' = {})]_vars

\* three submits in a row without a timer firing in between: the message is
\* shown and only the timer of the third submit is pending
C24_Witness ==
    /\ submits = 3
    /\ timers = {3}
    /\ successTimeoutId = 3
    /\ ~successHidden

(* ---------------- C25 ---------------- *)
\* C25: in every reachable state currentSkip is the length of posts.
C25_SkipIsLength ==
    currentSkip = Len(posts)

\* after a failed invocation, a later one has appended its batch and its author
\* lookups are still in flight
C25_Witness ==
    \E i, j \in DOMAIN calls :
        /\ i < j
        /\ calls[i].result = "failed"
        /\ calls[j].pc = "display"
        /\ \E s \in DOMAIN calls[j].slots : calls[j].slots[s].st = "fetch"
        /\ Len(posts) > 0
        /\ currentSkip = Len(posts)

(* ---------------- C26 ---------------- *)
\* C26: a loadPosts invocation stopped by the guard changes nothing: posts,
\* currentSkip, totalPosts, the spinner, the posts container and the pending
\* invocations are as before, no request is sent, and isLoading stays true.
C26_GuardedCallIsNoOp ==
    [][guardHit' =>
          /\ UNCHANGED <<posts, currentSkip, totalPosts, users, spinnerHidden,
                         container, calls, postsRequests, userRequests>>
          /\ isLoading /\ isLoading'
          /\ PendingCalls' # {}]_vars

\* a click on Load More has been turned away while the author lookups of the
\* batch of the pending invocation are outstanding
C26_Witness ==
    /\ guardHit
    /\ isLoading
    /\ postsRequests = 1
    /\ \E i \in DOMAIN calls :
          /\ calls[i].pc = "display"
          /\ \E s \in DOMAIN calls[i].slots : calls[i].slots[s].st = "fetch"

(* C27: a click on the Posts nav link while posts is empty and no load is
   pending sends one posts request from its direct showView('posts'); the
   hashchange event that click queued then runs showView again, finds
   isLoading true with the click's request still unanswered, and sends no
   request and starts no invocation. *)
C27_ClickSendsOneRequest ==
    [][/\ (NavClick("posts") /\ posts = << >> /\ ~isLoading)
            => (postsRequests' = postsRequests + 1 /\ isLoading')
       /\ (HashChange /\ Head(hashEvents) # 0)
            => /\ isLoading
               /\ calls[Head(hashEvents)].pc = "fetch"
               /\ postsRequests' = postsRequests
               /\ calls' = calls]_vars

\* the click's hashchange has been dispatched: still one request, unanswered
C27_Witness ==
    /\ hash = "posts" /\ hashEvents = << >> /\ visible = {"posts"}
    /\ posts = << >> /\ isLoading
    /\ postsRequests = 1 /\ calls[1].pc = "fetch" /\ ~calls[1].more

(* ---------------- C28 ---------------- *)
RECURSIVE CardPosts(_)
\* the posts of the cards (full or fallback) of a sequence of container
\* children, in document order
CardPosts(els) ==
    IF els = << >> THEN << >>
    ELSE (IF Head(els).kind \in {"card", "fallback"} THEN <<Head(els).post>> ELSE << >>)
         \o CardPosts(Tail(els))

\* C28: when every invocation so far has settled with result "ok", the cards
\* of the container, in document order, are the posts of appData.posts in
\* the same order.
C28_CardsInPostsOrder ==
    (calls # << >> /\ \A i \in DOMAIN calls : calls[i].result = "ok")
        => CardPosts(container) = posts

(* ---------------- C29 ---------------- *)
\* C29: no step removes an id from the user cache, and the step in which a
\* lookup of an id fails while the cache holds an entry for that id (written
\* by another lookup) leaves that entry as it was.
C29_CacheOnlyGrows ==
    /\ [][DOMAIN users \subseteq DOMAIN users']_vars
    /\ [][\A x \in AllSlots :
            ( /\ Slot(x).st # "failed"
              /\ calls'[x[1]].slots[x[2]].st = "failed"
              /\ Slot(x).user \in DOMAIN users )
            => ( /\ Slot(x).user \in DOMAIN users'
                 /\ users'[Slot(x).user] = users[Slot(x).user] )]_vars

\* two lookups of one id in one batch: the first succeeded and wrote the
\* entry, the second failed afterwards (its fallback card follows the card of
\* the first), and the entry is still there
C29_Witness ==
    \E x, y \in AllSlots :
        /\ x[1] = y[1]
        /\ Slot(x).user = Slot(y).user
        /\ Slot(x).st = "ok" /\ Slot(y).st = "failed"
        /\ container = <<Card(Slot(x).post, TRUE), Card(Slot(y).post, FALSE)>>
        /\ Slot(x).user \in DOMAIN users
        /\ users[Slot(x).user] = UserRecord(Slot(x).user)

(* ---------------- C30 ---------------- *)
\* C30: a Load More click that passes the guard leaves the button disabled;
\* the button is disabled exactly while an invocation made by loadMorePosts
\* is pending; and the step in which such an invocation settles, with a
\* failure as well as with a success, leaves the button enabled.
C30_ButtonReenabled ==
    /\ [][(LoadMoreClick /\ ~isLoading) => loadMoreDisabled']_vars
    /\ [](loadMoreDisabled <=> \E i \in PendingCalls : calls[i].more)
    /\ [][\A i \in DOMAIN calls :
            (calls[i].more /\ calls[i].pc # "done" /\ calls'[i].pc = "done")
                => ~loadMoreDisabled']_vars

\* a load started by the button failed and the button is enabled again
C30_Witness ==
    /\ PendingCalls = {}
    /\ ~loadMoreDisabled
    /\ \E i \in DOMAIN calls : calls[i].more /\ calls[i].result = "failed"


====
